---- MODULE Spec2Model ----
(***************************************************************************)
(* Local-first note synchronisation of the notes app: the notes service   *)
(* (NotesService), the cache layer it writes through (StorageService),    *)
(* the reachability monitor (NetworkService) and the login / logout of    *)
(* AuthService.  AsyncStorage is the persistent key-value store; the      *)
(* remote note source is the mock REST endpoint.                          *)
(***************************************************************************)
EXTENDS Integers, Sequences, FiniteSets, TLC

(* ---------------------------- bounds ---------------------------------- *)
NumPosts  == 2      \* posts held by the remote source
MaxCreate == 1      \* createNote calls in one behaviour
MaxOps    == 2      \* offline operations ever enqueued in one behaviour
MaxClock  == 1      \* largest value of Date.now()
MaxPage   == 2      \* largest page number requested
MaxLimit  == 2      \* largest page size requested
MaxCalls  == 3      \* calls of the services in one behaviour

(* ----------------------- program constants ---------------------------- *)
FetchLimit == 10    \* mockPosts.slice(0, 10)
MockTotal  == 100   \* const total = 100

Titles        == {"a", "b"}
NetInfoValues == {"true", "false", "null"}

(* Partial<Note> as the screens build it: no field, or a new title. *)
Partials == {<<>>} \cup {[title |-> t] : t \in Titles}

VARIABLES
  cache,         \* AsyncStorage[NOTES_CACHE]: sequence of Note
  queue,         \* AsyncStorage[OFFLINE_OPERATIONS]: sequence of OfflineOperation
  authToken,     \* AsyncStorage[AUTH_TOKEN]: "null" or "token"
  userData,      \* AsyncStorage[USER_DATA]: "null" or "user"
  currentState,  \* NetworkService.currentState
  clock,         \* Date.now()
  nextNote,      \* number of note ids generated so far
  nextOp,        \* number of offline-operation ids generated so far
  calls,         \* number of service calls made so far
  sync,          \* the running syncOfflineOperations call
  last,          \* the call that completed last, with what it returned
  created,       \* ids returned by createNote, not deleted or cleared since
  deleted,       \* ids of cached notes a completed deleteNote call removed
  listeners,     \* NetworkService.listeners
  netInit,       \* position of initializeNetworkListener
  notice,        \* the latest notifyListeners run
  pending,       \* work started by listener callbacks and not finished yet
  tasks          \* the calls in flight that are followed await by await

\* the reachability monitor's subscribers and what they have started
net == <<listeners, netInit, notice, pending>>

vars == <<cache, queue, authToken, userData, currentState, clock,
          nextNote, nextOp, calls, sync, last, created, deleted, net,
          tasks>>

(* ------------------------------ helpers ------------------------------- *)
Min(a, b) == IF a < b THEN a ELSE b

Ids(notes) == {notes[i].id : i \in 1..Len(notes)}

\* Array.prototype.filter for "keep the elements whose id differs from id"
RECURSIVE FilterOutId(_, _)
FilterOutId(s, id) ==
  IF s = <<>> THEN <<>>
  ELSE IF Head(s).id # id THEN <<Head(s)>> \o FilterOutId(Tail(s), id)
       ELSE FilterOutId(Tail(s), id)

\* Array.prototype.findIndex(n => n.id === id); 0 stands for -1
FindIndex(notes, id) ==
  IF \E i \in 1..Len(notes) : notes[i].id = id
  THEN CHOOSE i \in 1..Len(notes) :
         notes[i].id = id /\ \A j \in 1..(i - 1) : notes[j].id # id
  ELSE 0

\* Array.prototype.slice(startIndex, endIndex), 0-based, end excluded
Slice(s, startIndex, endIndex) ==
  LET lo == Min(startIndex, Len(s))
      hi == Min(endIndex, Len(s))
  IN  IF hi <= lo THEN <<>> ELSE SubSeq(s, lo + 1, hi)

\* { ...note, ...updates }
Spread(note, updates) ==
  [f \in DOMAIN note |-> IF f \in DOMAIN updates THEN updates[f] ELSE note[f]]

(* --------------------------- NetworkService --------------------------- *)
Coalesce(v) == IF v = "null" THEN FALSE ELSE v = "true"

isOnline == currentState.isConnected /\ currentState.isInternetReachable

\* offline decided on isConnected alone
isOfflineWhenDisconnected == ~currentState.isConnected

isOffline == ~isOnline

(* ------------------------------ records ------------------------------- *)
\* A Note, with title standing for the fields a caller supplies (title,
\* content, category, flags); ids are <<"post", k>> for post.id.toString()
\* and <<"note", k>> for the k-th generated note_<time>_<random> id.
Note(id, title, createdAt, updatedAt) ==
  [id |-> id, title |-> title, createdAt |-> createdAt, updatedAt |-> updatedAt]

\* likes: 0, likedBy: [] as the screens pass them to createNote; the notes
\* mapped from posts have neither field
Likes == [likes |-> 0, likedBy |-> <<>>]

\* <<"offline", n>> is the n-th generated offline_<time>_<random> id
OfflineOp(n, type, data, ts) ==
  [id |-> <<"offline", n>>, type |-> type, data |-> data, timestamp |-> ts]

\* pc: "idle" outside syncOfflineOperations, "sync" inside its for-of loop;
\* ops: the part of the snapshot (offlineOps) not visited yet; visited (the
\* number of operations visited), mutated and failed describe the latest drain
NoSync == [pc |-> "idle", ops |-> <<>>, visited |-> 0,
           mutated |-> FALSE, failed |-> FALSE]

\* fetch: "none" when the call attempted no remote read, else how the
\* attempt ended ("ok", "failed", "noToken")
Ret(op, id, ok, remote, result) ==
  [op |-> op, id |-> id, arg |-> <<>>, ok |-> ok, remote |-> remote,
   result |-> result, hasMore |-> FALSE, total |-> 0, fetch |-> "none"]

\* how a remote read ends: no token stored, the request resolved with a
\* success status, or it rejected / resolved with another status
FetchEnd(attempted, responseOk) ==
  IF ~attempted THEN "none"
  ELSE IF authToken = "null" THEN "noToken"
  ELSE IF responseOk THEN "ok" ELSE "failed"

NoId == <<"none", 0>>

(* --------------------------- StorageService --------------------------- *)
\* cacheNotes(notes): one setItem of the whole collection
cacheNotes(notes) == notes

\* addOfflineOperation(operation): read, push, write
addOfflineOperation(ops, operation) == Append(ops, operation)

\* the filter with its test inverted: op.id === operationId
removeOfflineOperationInverted(ops, operationId) ==
  SelectSeq(ops, LAMBDA op : op.id = operationId)

\* shift() in place of the filter: only the head is tested
removeOfflineOperationHead(ops, operationId) ==
  IF ops # <<>> /\ Head(ops).id = operationId THEN Tail(ops) ELSE ops

\* removeOfflineOperation(operationId): read, filter, write
removeOfflineOperation(ops, operationId) == FilterOutId(ops, operationId)

(* ------------------------- Remote note source ------------------------- *)
\* the posts mapped to notes, all stamped with the time of the mapping
PostNote(k, now) == Note(<<"post", k>>, "p", now, now)

fetchNotesFromAPI(now) ==
  [k \in 1..Min(NumPosts, FetchLimit) |-> PostNote(k, now)]

\* GET /posts?_page=page&_limit=limit
PagePosts(page, limit) ==
  LET lo == (page - 1) * limit
      hi == Min(page * limit, NumPosts)
  IN  IF hi <= lo THEN <<>> ELSE [i \in 1..(hi - lo) |-> lo + i]

fetchNotesFromAPIWithPagination(page, limit, now) ==
  LET posts == PagePosts(page, limit)
  IN  [notes   |-> [i \in 1..Len(posts) |-> PostNote(posts[i], now)],
       hasMore |-> (page * limit) < MockTotal,
       total   |-> MockTotal]

(* ----------------------- NotesService helpers ------------------------- *)
addNoteToCache(notes, note) ==
  LET existingNoteIndex == FindIndex(notes, note.id)
  IN  IF existingNoteIndex # 0
      THEN cacheNotes([notes EXCEPT ![existingNoteIndex] = note])
      ELSE cacheNotes(Append(notes, note))

updateNoteInCache(notes, updatedNote) ==
  LET noteIndex == FindIndex(notes, updatedNote.id)
  IN  IF noteIndex # 0
      THEN cacheNotes([notes EXCEPT ![noteIndex] = updatedNote])
      ELSE notes

removeNoteFromCache(notes, id) == cacheNotes(FilterOutId(notes, id))

\* a mutation issued while a drain is between two awaits
NoteMutation == [sync EXCEPT !.mutated = (sync.pc = "sync") \/ @]

\* a call of a service method by a screen
Call == calls < MaxCalls /\ calls' = calls + 1

NoteIdSpace ==
  {<<"post", k>> : k \in 1..NumPosts} \cup {<<"note", k>> : k \in 1..MaxCreate}

\* before: the listeners when notifyListeners began; invoked: the listeners
\* it called, in order; queued: the ids of the operations in the offline
\* queue at that moment
NoNotice == [before |-> <<>>, invoked |-> <<>>, queued |-> {}]

\* the calls followed await by await: one getNotes and two createNote
Creators == {"createNote1", "createNote2"}

TaskIds == {"getNotes"} \cup Creators

\* pc: the await the call is at; note: the note a createNote built;
\* cachedNotes: the array its getCachedNotes returned; stale: the note was
\* written to the cache while getNotes was awaiting its fetch
NoTask == [pc |-> "idle", note |-> <<>>, cachedNotes |-> <<>>,
           stale |-> FALSE]

NoTasks == [t \in TaskIds |-> NoTask]

(* ------------------------------- Init --------------------------------- *)
Init ==
  /\ cache = <<>>
  /\ queue = <<>>
  /\ \E session \in {"null", "token"} :
       /\ authToken = session
       /\ userData = IF session = "null" THEN "null" ELSE "user"
  /\ currentState = [isConnected |-> TRUE, isInternetReachable |-> TRUE]
  /\ clock = 0
  /\ nextNote = 0
  /\ nextOp = 0
  /\ calls = 0
  /\ sync = NoSync
  /\ last = Ret("init", NoId, TRUE, FALSE, <<>>)
  /\ created = {}
  /\ deleted = {}
  /\ listeners = <<>>
  /\ netInit = "listening"
  /\ notice = NoNotice
  /\ pending = {}
  /\ tasks = NoTasks

(* --------------------------- environment ------------------------------ *)
Tick ==
  /\ clock < MaxClock
  /\ clock' = clock + 1
  /\ last' = Ret("tick", NoId, TRUE, FALSE, <<>>)
  /\ UNCHANGED <<net, tasks, cache, queue, authToken, userData, currentState,
                 nextNote, nextOp, calls, sync, created, deleted>>

\* NetInfo event -> updateNetworkState(netInfoState)
updateNetworkState ==
  \E c \in NetInfoValues, r \in NetInfoValues :
    LET newState == [isConnected |-> Coalesce(c),
                     isInternetReachable |-> Coalesce(r)]
    IN  /\ currentState' = IF currentState.isConnected # newState.isConnected
                              \/ currentState.isInternetReachable
                                   # newState.isInternetReachable
                           THEN newState ELSE currentState
        /\ last' = Ret("network", NoId, TRUE, FALSE, <<>>)
        /\ UNCHANGED <<net, tasks, cache, queue, authToken, userData, clock,
                       nextNote, nextOp, calls, sync, created, deleted>>

(* ---------------------------- AuthService ----------------------------- *)
login ==
  \E responseOk \in BOOLEAN :
    /\ Call
    /\ IF isOffline \/ ~responseOk
       THEN /\ last' = Ret("login", NoId, FALSE, isOnline, <<>>)
            /\ UNCHANGED <<authToken, userData>>
       ELSE /\ userData' = "user"
            /\ authToken' = "token"
            /\ last' = Ret("login", NoId, TRUE, TRUE, <<>>)
    /\ UNCHANGED <<net, tasks, cache, queue, currentState, clock, nextNote, nextOp,
                   sync, created, deleted>>

\* what the store held when clearAllData was called
Stored == [notes |-> Len(cache), ops |-> Len(queue), token |-> authToken]

\* clearAuthData in its place: multiRemove of the token and the user only
clearAuthDataOnly ==
  /\ Call
  /\ authToken' = "null"
  /\ userData' = "null"
  /\ sync' = NoteMutation
  /\ last' = [Ret("clearAllData", NoId, TRUE, FALSE, <<>>)
                EXCEPT !.arg = Stored]
  /\ UNCHANGED <<net, tasks, cache, queue, created, deleted, currentState, clock,
                 nextNote, nextOp>>

\* logout -> storageService.clearAllData -> AsyncStorage.clear()
clearAllData ==
  /\ Call
  /\ cache' = <<>>
  /\ queue' = <<>>
  /\ authToken' = "null"
  /\ userData' = "null"
  /\ created' = {}
  /\ deleted' = {}
  /\ sync' = NoteMutation
  /\ last' = [Ret("clearAllData", NoId, TRUE, FALSE, <<>>)
                EXCEPT !.arg = Stored]
  /\ UNCHANGED <<net, tasks, currentState, clock, nextNote, nextOp>>

(* ---------------------------- NotesService ---------------------------- *)
\* the fetch decided on connectivity alone
ShouldFetchWhenOnline(cachedNotes) == isOnline

\* the fetch condition without the connectivity test
ShouldFetchWhenEmpty(cachedNotes) == Len(cachedNotes) = 0

\* getNotes, line 21: fetch only when online with an empty cache
ShouldFetch(cachedNotes) == isOnline /\ Len(cachedNotes) = 0

\* getNotes with a catch that rethrows, as the catch of updateNote does
getNotesRethrow ==
  \E responseOk \in BOOLEAN :
    LET cachedNotes == cache
        attempted   == ShouldFetch(cachedNotes)
        sent        == attempted /\ authToken # "null"
        fetched     == sent /\ responseOk
        apiNotes    == fetchNotesFromAPI(clock)
    IN  /\ Call
        /\ cache' = IF fetched THEN cacheNotes(apiNotes) ELSE cache
        /\ last' = [Ret("getNotes", NoId, fetched \/ ~attempted, sent,
                        IF fetched THEN apiNotes
                        ELSE IF attempted THEN <<>> ELSE cachedNotes)
                      EXCEPT !.fetch = FetchEnd(attempted, responseOk)]
        /\ UNCHANGED <<net, tasks, queue, authToken, userData, currentState,
                       clock, nextNote, nextOp, sync, created, deleted>>

getNotes ==
  \E responseOk \in BOOLEAN :
    LET cachedNotes == cache
        sent        == ShouldFetch(cachedNotes) /\ authToken # "null"
        fetched     == sent /\ responseOk
        apiNotes    == fetchNotesFromAPI(clock)
    IN  /\ Call
        /\ cache' = IF fetched THEN cacheNotes(apiNotes) ELSE cache
        /\ last' = [Ret("getNotes", NoId, TRUE, sent,
                        IF fetched THEN apiNotes ELSE cachedNotes)
                      EXCEPT !.fetch = FetchEnd(ShouldFetch(cachedNotes),
                                                responseOk)]
        /\ UNCHANGED <<net, tasks, queue, authToken, userData, currentState, clock,
                       nextNote, nextOp, sync, created, deleted>>

\* the slice with hasMore also true when the slice ends at the last note
CachedPageInclusive(cachedNotes, page, limit) ==
  LET startIndex == (page - 1) * limit
      endIndex   == startIndex + limit
  IN  [notes   |-> Slice(cachedNotes, startIndex, endIndex),
       hasMore |-> endIndex <= Len(cachedNotes),
       total   |-> Len(cachedNotes)]

\* getNotesPaginated, lines 51-61 and 66-76: the slice of the cache
CachedPage(cachedNotes, page, limit) ==
  LET startIndex == (page - 1) * limit
      endIndex   == startIndex + limit
  IN  [notes   |-> Slice(cachedNotes, startIndex, endIndex),
       hasMore |-> endIndex < Len(cachedNotes),
       total   |-> Len(cachedNotes)]

\* getNotesPaginated, line 47: what the cache holds after a fetched page
CachePage(cachedNotes, pageNotes) == cacheNotes(pageNotes)

getNotesPaginated ==
  \E page \in 1..MaxPage, limit \in 1..MaxLimit, responseOk \in BOOLEAN :
    LET sent    == isOnline /\ authToken # "null"
        fetched == sent /\ responseOk
        result  == IF fetched
                   THEN fetchNotesFromAPIWithPagination(page, limit, clock)
                   ELSE CachedPage(cache, page, limit)
    IN  /\ Call
        /\ cache' = IF fetched THEN CachePage(cache, result.notes) ELSE cache
        /\ last' = [Ret("getNotesPaginated", NoId, TRUE, sent, result.notes)
                      EXCEPT !.arg = <<page, limit>>,
                             !.hasMore = result.hasMore,
                             !.total = result.total,
                             !.fetch = FetchEnd(isOnline, responseOk)]
        /\ UNCHANGED <<net, tasks, queue, authToken, userData, currentState, clock,
                       nextNote, nextOp, sync, created, deleted>>

\* createNote, line 180: the condition under which the CREATE is queued
QueuesCreate == isOnline

createNote ==
  \E title \in Titles, d \in {0, 1} :
    LET noteData == [title |-> title] @@ Likes
        newNote  == Note(<<"note", nextNote + 1>>, title, clock, clock + d)
                      @@ noteData
        offlineOp == OfflineOp(nextOp + 1, "CREATE", noteData, clock + d)
    IN  /\ Call
        /\ nextNote < MaxCreate
        /\ clock + d <= MaxClock
        /\ QueuesCreate => nextOp < MaxOps
        /\ nextNote' = nextNote + 1
        /\ clock' = clock + d
        /\ cache' = addNoteToCache(cache, newNote)
        /\ IF QueuesCreate
           THEN /\ queue' = addOfflineOperation(queue, offlineOp)
                /\ nextOp' = nextOp + 1
           ELSE UNCHANGED <<queue, nextOp>>
        /\ created' = created \cup {newNote.id}
        /\ sync' = NoteMutation
        /\ last' = [Ret("createNote", newNote.id, TRUE, FALSE, <<newNote>>)
                      EXCEPT !.arg = noteData]
        /\ UNCHANGED <<net, tasks, authToken, userData, currentState, deleted>>

\* the merge with the updates left out
MergeUpdateKeepsOld(note, updates, now) == [note EXCEPT !.updatedAt = now]

\* updateNote, lines 254-258: the cached copy after an offline update
MergeUpdate(note, updates, now) ==
  [Spread(note, updates) EXCEPT !.updatedAt = now]

\* updateNote, lines 234-239: PUT, then the response replaces the cached copy.
\* The response is the server's copy of the note: its title and creation time
\* are the server's, its update time is the time of the request.
updateNoteOnline(id, updates) ==
  \E responseOk \in BOOLEAN, t \in Titles, u \in 0..clock :
    LET sent        == authToken # "null"
        updatedNote == Note(id, t, u, clock)
    IN  /\ IF sent /\ responseOk
           THEN /\ cache' = updateNoteInCache(cache, updatedNote)
                /\ last' = [Ret("updateNote", id, TRUE, TRUE, <<updatedNote>>)
                              EXCEPT !.arg = updates]
           ELSE /\ u = 0 /\ t = "a"
                /\ cache' = cache
                /\ last' = [Ret("updateNote", id, FALSE, sent, <<>>)
                              EXCEPT !.arg = updates]
        /\ UNCHANGED <<queue, nextOp>>

\* updateNote, lines 241-263: queue the UPDATE, then patch the cached copy
updateNoteOffline(id, updates) ==
  LET offlineOp == OfflineOp(nextOp + 1, "UPDATE",
                             [id |-> id] @@ updates, clock)
      noteIndex == FindIndex(cache, id)
      merged    == MergeUpdate(cache[noteIndex], updates, clock)
  IN  /\ nextOp < MaxOps
      /\ queue' = addOfflineOperation(queue, offlineOp)
      /\ nextOp' = nextOp + 1
      /\ IF noteIndex # 0
         THEN /\ cache' = cacheNotes([cache EXCEPT ![noteIndex] = merged])
              /\ last' = [Ret("updateNote", id, TRUE, FALSE, <<merged>>)
                            EXCEPT !.arg = updates]
         ELSE /\ cache' = cache
              /\ last' = [Ret("updateNote", id, FALSE, FALSE, <<>>)
                            EXCEPT !.arg = updates]

updateNote ==
  \E id \in NoteIdSpace, updates \in Partials :
    /\ Call
    /\ IF isOnline THEN updateNoteOnline(id, updates)
                   ELSE updateNoteOffline(id, updates)
    /\ sync' = NoteMutation
    /\ UNCHANGED <<net, tasks, authToken, userData, currentState, clock, nextNote,
                   created, deleted>>

\* deleteNote, lines 303-307: DELETE, then remove from the cache
deleteNoteOnline(id) ==
  \E responseOk \in BOOLEAN :
    LET sent == authToken # "null"
    IN  /\ IF sent /\ responseOk
           THEN /\ cache' = removeNoteFromCache(cache, id)
                /\ last' = Ret("deleteNote", id, TRUE, TRUE, <<>>)
           ELSE /\ cache' = cache
                /\ last' = Ret("deleteNote", id, FALSE, sent, <<>>)
        /\ UNCHANGED <<queue, nextOp>>

\* deleteNote, lines 309-319: queue the DELETE, then remove from the cache
deleteNoteOffline(id) ==
  LET offlineOp == OfflineOp(nextOp + 1, "DELETE", [id |-> id], clock)
  IN  /\ nextOp < MaxOps
      /\ queue' = addOfflineOperation(queue, offlineOp)
      /\ nextOp' = nextOp + 1
      /\ cache' = removeNoteFromCache(cache, id)
      /\ last' = Ret("deleteNote", id, TRUE, FALSE, <<>>)

deleteNote ==
  \E id \in NoteIdSpace :
    /\ Call
    /\ IF isOnline THEN deleteNoteOnline(id) ELSE deleteNoteOffline(id)
    /\ created' = created \ {id}
    /\ deleted' = IF last'.ok /\ id \in Ids(cache)
                  THEN deleted \cup {id} ELSE deleted
    /\ sync' = NoteMutation
    /\ UNCHANGED <<net, tasks, authToken, userData, currentState, clock, nextNote>>

\* syncOfflineOperations, lines 350-363: up to the snapshot of the queue
\* (one drain at a time)
syncStart ==
  /\ Call
  /\ sync.pc = "idle"
  /\ IF isOffline
     THEN /\ sync' = NoSync
          /\ last' = Ret("syncSkipped", NoId, TRUE, FALSE, <<>>)
     ELSE IF Len(queue) = 0
     THEN /\ sync' = NoSync
          /\ last' = Ret("sync", NoId, TRUE, FALSE, <<>>)
     ELSE /\ sync' = [NoSync EXCEPT !.pc = "sync", !.ops = queue]
          /\ last' = Ret("syncStart", NoId, TRUE, FALSE, <<>>)
  /\ UNCHANGED <<net, tasks, cache, queue, authToken, userData, currentState, clock,
                 nextNote, nextOp, created, deleted>>

\* one iteration of a loop without the inner try/catch: a failed removal
\* ends the drain
syncStepAbortOnFailure ==
  \E storageOk \in BOOLEAN :
    LET operation == Head(sync.ops)
        rest      == IF storageOk THEN Tail(sync.ops) ELSE <<>>
    IN  /\ sync.pc = "sync"
        /\ queue' = IF storageOk
                    THEN removeOfflineOperation(queue, operation.id)
                    ELSE queue
        /\ sync' = [sync EXCEPT
                      !.pc = IF rest = <<>> THEN "idle" ELSE "sync",
                      !.ops = rest,
                      !.visited = @ + 1,
                      !.failed = @ \/ ~storageOk]
        /\ last' = IF rest = <<>>
                   THEN Ret("sync", NoId, storageOk, FALSE, <<>>)
                   ELSE Ret("syncStep", operation.id, storageOk, FALSE, <<>>)
        /\ UNCHANGED <<net, tasks, cache, authToken, userData, currentState, clock,
                       nextNote, nextOp, calls, created, deleted>>

\* syncOfflineOperations, lines 365-395: one iteration of the for-of loop;
\* AsyncStorage.setItem inside removeOfflineOperation resolves or rejects
syncStep ==
  \E storageOk \in BOOLEAN :
    LET operation == Head(sync.ops)
        rest      == Tail(sync.ops)
    IN  /\ sync.pc = "sync"
        /\ queue' = IF storageOk
                    THEN removeOfflineOperation(queue, operation.id)
                    ELSE queue
        /\ sync' = [sync EXCEPT
                      !.pc = IF rest = <<>> THEN "idle" ELSE "sync",
                      !.ops = rest,
                      !.visited = @ + 1,
                      !.failed = @ \/ ~storageOk]
        /\ last' = IF rest = <<>>
                   THEN Ret("sync", NoId, TRUE, FALSE, <<>>)
                   ELSE Ret("syncStep", operation.id, storageOk, FALSE, <<>>)
        /\ UNCHANGED <<net, tasks, cache, authToken, userData, currentState, clock,
                       nextNote, nextOp, calls, created, deleted>>

(* ------------------------------- Next --------------------------------- *)
Next ==
  \/ Tick
  \/ updateNetworkState
  \/ login
  \/ clearAllData
  \/ getNotes
  \/ getNotesPaginated
  \/ createNote
  \/ updateNote
  \/ deleteNote
  \/ syncStart
  \/ syncStep

Spec == Init /\ [][Next]_vars

(* ====================================================================== *)
(* The reachability monitor with its subscribers                          *)
(* ====================================================================== *)
MaxQueued == 1      \* operations in the queue persisted by an earlier run

ScreenPageSize == 20   \* getNotesPaginated(1, 20)

\* the callbacks passed to networkService.subscribe, one per subscriber
ListScreens == {"NotesListScreen", "OptimizedNotesListScreen"}

Subscribers == ListScreens \cup {"waitForConnection"}

Online(state) == state.isConnected /\ state.isInternetReachable

\* Array.prototype.indexOf; 0 stands for -1
IndexOf(ls, listener) ==
  IF \E i \in 1..Len(ls) : ls[i] = listener
  THEN CHOOSE i \in 1..Len(ls) :
         ls[i] = listener /\ \A j \in 1..(i - 1) : ls[j] # listener
  ELSE 0

\* the function subscribe returns: indexOf, then splice(index, 1)
Unsubscribe(ls, listener) ==
  LET index == IndexOf(ls, listener)
  IN  IF index > 0
      THEN SubSeq(ls, 1, index - 1) \o SubSeq(ls, index + 1, Len(ls))
      ELSE ls

\* the callback of waitForConnection unsubscribes itself once online
UnsubscribesOn(listener, state) ==
  listener = "waitForConnection" /\ Online(state)

\* Array.prototype.forEach over this.listeners: the indices below the length
\* the array had at the start, each read from the array as it is when the
\* index is reached, an index past the end being skipped
RECURSIVE ForEach(_, _, _, _, _)
ForEach(ls, k, len, state, invoked) ==
  IF k > len THEN [listeners |-> ls, invoked |-> invoked]
  ELSE IF k > Len(ls) THEN ForEach(ls, k + 1, len, state, invoked)
  ELSE LET listener == ls[k]
           after    == IF UnsubscribesOn(listener, state)
                       THEN Unsubscribe(ls, listener) ELSE ls
       IN  ForEach(after, k + 1, len, state, Append(invoked, listener))

notifyListeners(ls, state) == ForEach(ls, 1, Len(ls), state, <<>>)

\* what the invoked callbacks of the list screens start when told "online":
\* NotesListScreen its syncOfflineOperations, OptimizedNotesListScreen its
\* loadNotes
Started(invoked, state) ==
  IF Online(state)
  THEN {"sync" : i \in {j \in 1..Len(invoked) :
                          invoked[j] = "NotesListScreen"}}
       \cup {"reload" : i \in {j \in 1..Len(invoked) :
                                 invoked[j] = "OptimizedNotesListScreen"}}
  ELSE {}

\* updateNetworkState(netInfoState), the listeners notified when the state
\* changed
Deliver(c, r) ==
  LET newState == [isConnected |-> Coalesce(c),
                   isInternetReachable |-> Coalesce(r)]
      changed  == currentState.isConnected # newState.isConnected
                  \/ currentState.isInternetReachable
                       # newState.isInternetReachable
      done     == notifyListeners(listeners, newState)
  IN  IF changed
         THEN /\ currentState' = newState
              /\ listeners' = done.listeners
              /\ notice' = [before  |-> listeners,
                            invoked |-> done.invoked,
                            queued  |-> Ids(queue)]
              /\ pending' = pending \cup Started(done.invoked, newState)
         ELSE UNCHANGED <<currentState, listeners, notice, pending>>

\* what NetInfo delivered: a state with both fields, or one with a field
\* missing or null
Delivered(c, r) ==
  IF c = "null" \/ r = "null" THEN "indeterminate" ELSE "determinate"

\* the state left alone by the monitor; outcome is what NetInfo delivered
NetFrame(op, outcome) ==
  /\ last' = [Ret(op, NoId, outcome # "rejected", FALSE, <<>>)
                EXCEPT !.arg = outcome]
  /\ UNCHANGED <<cache, queue, authToken, userData, clock, nextNote, nextOp,
                 calls, sync, created, deleted, tasks>>

\* a persisted queue of k operations of earlier offline sessions
PersistedQueues ==
  UNION {[1..k -> {"UPDATE", "DELETE"}] : k \in 0..MaxQueued}

InitNet ==
  /\ cache = <<>>
  /\ \E types \in PersistedQueues :
       /\ queue = [n \in 1..Len(types) |->
                     OfflineOp(n, types[n], [id |-> <<"post", 1>>], 0)]
       /\ nextOp = Len(types)
  /\ authToken = "token"
  /\ userData = "user"
  /\ currentState = [isConnected |-> TRUE, isInternetReachable |-> TRUE]
  /\ clock = 0
  /\ nextNote = 0
  /\ calls = 0
  /\ sync = NoSync
  /\ last = Ret("init", NoId, TRUE, FALSE, <<>>)
  /\ created = {}
  /\ deleted = {}
  /\ listeners = <<>>
  /\ netInit = "probing"
  /\ notice = NoNotice
  /\ pending = {}
  /\ tasks = NoTasks

\* initializeNetworkListener: NetInfo.fetch() resolves, and the event
\* listener is registered, or rejects, and the function ends there
initializeNetworkListener ==
  /\ netInit = "probing"
  /\ \/ \E c \in NetInfoValues, r \in NetInfoValues :
          /\ Deliver(c, r)
          /\ netInit' = "listening"
          /\ NetFrame("initializeNetworkListener", Delivered(c, r))
     \/ /\ netInit' = "failed"
        /\ UNCHANGED <<currentState, listeners, notice, pending>>
        /\ NetFrame("initializeNetworkListener", "rejected")

\* the callback given to NetInfo.addEventListener
netInfoEvent ==
  /\ netInit = "listening"
  /\ \E c \in NetInfoValues, r \in NetInfoValues :
       /\ Deliver(c, r)
       /\ NetFrame("netInfoEvent", Delivered(c, r))
  /\ UNCHANGED netInit

\* refreshNetworkState: NetInfo.fetch() resolves or rejects
refreshNetworkState ==
  /\ \/ \E c \in NetInfoValues, r \in NetInfoValues :
          /\ Deliver(c, r)
          /\ NetFrame("refreshNetworkState", Delivered(c, r))
     \/ /\ UNCHANGED <<currentState, listeners, notice, pending>>
        /\ NetFrame("refreshNetworkState", "rejected")
  /\ UNCHANGED netInit

\* the list screen of the build mounts (useEffect), or waitForConnection is
\* called offline
subscribe ==
  \E listener \in Subscribers :
    /\ IndexOf(listeners, listener) = 0
    /\ listener \in ListScreens
         => \A i \in 1..Len(listeners) : listeners[i] \notin ListScreens
    /\ listener = "waitForConnection" => ~isOnline
    /\ listeners' = Append(listeners, listener)
    /\ UNCHANGED <<currentState, netInit, notice, pending>>
    /\ NetFrame("subscribe", listener)

\* NotesListScreen.syncOfflineOperations as started by the listener: the
\* offline test of notesService.syncOfflineOperations was passed inside the
\* callback, the queue is read now
listenerSync ==
  /\ "sync" \in pending
  /\ "syncing" \notin pending
  /\ sync.pc = "idle"
  /\ pending' = (pending \ {"sync"}) \cup {"syncing"}
  /\ IF Len(queue) = 0
     THEN /\ sync' = NoSync
          /\ last' = Ret("sync", NoId, TRUE, FALSE, <<>>)
     ELSE /\ sync' = [NoSync EXCEPT !.pc = "sync", !.ops = queue]
          /\ last' = Ret("syncStart", NoId, TRUE, FALSE, <<>>)
  /\ UNCHANGED <<cache, queue, authToken, userData, currentState, clock,
                 nextNote, nextOp, calls, created, deleted,
                 listeners, netInit, notice, tasks>>

\* NotesListScreen.syncOfflineOperations, line 89: loadNotes() once the
\* drain has returned
listenerLoadNotes ==
  \E responseOk \in BOOLEAN :
    LET sent     == ShouldFetch(cache) /\ authToken # "null"
        fetched  == sent /\ responseOk
        apiNotes == fetchNotesFromAPI(clock)
    IN  /\ "syncing" \in pending
        /\ sync.pc = "idle"
        /\ pending' = pending \ {"syncing"}
        /\ cache' = IF fetched THEN cacheNotes(apiNotes) ELSE cache
        /\ last' = Ret("getNotes", NoId, TRUE, sent,
                       IF fetched THEN apiNotes ELSE cache)
        /\ UNCHANGED <<queue, authToken, userData, currentState, clock,
                       nextNote, nextOp, calls, sync, created, deleted,
                       listeners, netInit, notice, tasks>>

\* OptimizedNotesListScreen.loadNotes as started by the listener
listenerReload ==
  \E responseOk \in BOOLEAN :
    LET sent    == isOnline /\ authToken # "null"
        fetched == sent /\ responseOk
        result  == IF fetched
                   THEN fetchNotesFromAPIWithPagination(1, ScreenPageSize,
                                                        clock)
                   ELSE CachedPage(cache, 1, ScreenPageSize)
    IN  /\ "reload" \in pending
        /\ pending' = pending \ {"reload"}
        /\ cache' = IF fetched THEN CachePage(cache, result.notes) ELSE cache
        /\ last' = [Ret("getNotesPaginated", NoId, TRUE, sent, result.notes)
                      EXCEPT !.arg = <<1, ScreenPageSize>>,
                             !.hasMore = result.hasMore,
                             !.total = result.total]
        /\ UNCHANGED <<queue, authToken, userData, currentState, clock,
                       nextNote, nextOp, calls, sync, created, deleted,
                       listeners, netInit, notice, tasks>>

NextNet ==
  \/ initializeNetworkListener
  \/ netInfoEvent
  \/ refreshNetworkState
  \/ subscribe
  \/ listenerSync
  \/ syncStep
  \/ listenerLoadNotes
  \/ listenerReload

SpecNet == InitNet /\ [][NextNet]_vars

\* the event loop runs every continuation that is ready
SpecNetFair ==
  /\ SpecNet
  /\ WF_vars(listenerSync)
  /\ WF_vars(syncStep)
  /\ WF_vars(listenerLoadNotes)
  /\ WF_vars(listenerReload)

(* ====================================================================== *)
(* getNotes and createNote followed await by await                        *)
(* ====================================================================== *)
InitAsync ==
  /\ Init
  /\ authToken = "token"

\* the state a step of a call in flight leaves alone
TaskFrame ==
  UNCHANGED <<authToken, userData, currentState, calls, sync, deleted, net>>

\* getNotes, lines 15-21: getCachedNotes() has resolved; fetch, or return
getNotesRead ==
  LET cachedNotes == cache
  IN  /\ tasks["getNotes"].pc = "idle"
      /\ IF ShouldFetch(cachedNotes)
         THEN /\ tasks' = [tasks EXCEPT !["getNotes"].pc = "fetch"]
              /\ last' = Ret("getNotesRead", NoId, TRUE, TRUE, <<>>)
         ELSE /\ tasks' = [tasks EXCEPT !["getNotes"].pc = "done"]
              /\ last' = Ret("getNotes", NoId, TRUE, FALSE, cachedNotes)
      /\ UNCHANGED <<cache, queue, clock, nextNote, nextOp, created>>
      /\ TaskFrame

\* getNotes, lines 23-27 and 32-36: the fetch has resolved and the notes are
\* cached, or it has failed and the cache is read again
getNotesFetched ==
  \E responseOk \in BOOLEAN :
    LET apiNotes == fetchNotesFromAPI(clock)
    IN  /\ tasks["getNotes"].pc = "fetch"
        /\ tasks' = [tasks EXCEPT !["getNotes"].pc = "done"]
        /\ cache' = IF responseOk THEN cacheNotes(apiNotes) ELSE cache
        /\ last' = Ret("getNotes", NoId, TRUE, TRUE,
                       IF responseOk THEN apiNotes ELSE cache)
        /\ UNCHANGED <<queue, clock, nextNote, nextOp, created>>
        /\ TaskFrame

\* createNote, lines 163-171: the note is built
createNoteBegin(t) ==
  \E title \in Titles :
    LET newNote == Note(<<"note", nextNote + 1>>, title, clock, clock)
                     @@ Likes
    IN  /\ tasks[t].pc = "idle"
        /\ nextNote' = nextNote + 1
        /\ tasks' = [tasks EXCEPT ![t].pc = "read", ![t].note = <<newNote>>]
        /\ last' = Ret("createNoteBegin", newNote.id, TRUE, FALSE, <<>>)
        /\ UNCHANGED <<cache, queue, clock, nextOp, created>>
        /\ TaskFrame

\* addNoteToCache, line 406: getCachedNotes() has resolved
createNoteRead(t) ==
  /\ tasks[t].pc = "read"
  /\ tasks' = [tasks EXCEPT ![t].pc = "write", ![t].cachedNotes = cache]
  /\ last' = Ret("createNoteRead", tasks[t].note[1].id, TRUE, FALSE, <<>>)
  /\ UNCHANGED <<cache, queue, clock, nextNote, nextOp, created>>
  /\ TaskFrame

\* addNoteToCache, lines 411-423: the array read earlier, with the note
\* added, is written back
createNoteWrite(t) ==
  /\ tasks[t].pc = "write"
  /\ cache' = addNoteToCache(tasks[t].cachedNotes, tasks[t].note[1])
  /\ tasks' = [tasks EXCEPT
                 ![t].pc = "queue",
                 ![t].stale = tasks["getNotes"].pc = "fetch"]
  /\ last' = Ret("createNoteWrite", tasks[t].note[1].id, TRUE, FALSE, <<>>)
  /\ UNCHANGED <<queue, clock, nextNote, nextOp, created>>
  /\ TaskFrame

\* createNote, lines 180-195: the CREATE is queued when online, and the
\* call returns the note
createNoteReturn(t) ==
  LET newNote   == tasks[t].note[1]
      offlineOp == OfflineOp(nextOp + 1, "CREATE",
                             [title |-> newNote.title] @@ Likes, clock)
  IN  /\ tasks[t].pc = "queue"
      /\ IF QueuesCreate
         THEN /\ queue' = addOfflineOperation(queue, offlineOp)
              /\ nextOp' = nextOp + 1
         ELSE UNCHANGED <<queue, nextOp>>
      /\ tasks' = [tasks EXCEPT ![t].pc = "done"]
      /\ created' = created \cup {newNote.id}
      /\ last' = Ret("createNote", newNote.id, TRUE, FALSE, <<newNote>>)
      /\ UNCHANGED <<cache, clock, nextNote>>
      /\ TaskFrame

NextAsync ==
  \/ Tick
  \/ updateNetworkState
  \/ getNotesRead
  \/ getNotesFetched
  \/ \E t \in Creators : createNoteBegin(t)
  \/ \E t \in Creators : createNoteRead(t)
  \/ \E t \in Creators : createNoteWrite(t)
  \/ \E t \in Creators : createNoteReturn(t)

SpecAsync == InitAsync /\ [][NextAsync]_vars

(* ====================================================================== *)
(* The other writers of the notes cache                                   *)
(* ====================================================================== *)
Users == {"1", "2"}

\* testAsyncStorage, lines 194-206: the note it writes
TestNote(now) ==
  Note(<<"test", 123>>, "Test Note", now, now) @@ Likes

\* testAsyncStorage, lines 222-223: setItem(NOTES_CACHE, [testNote])
testAsyncStorage ==
  /\ Call
  /\ cache' = <<TestNote(clock)>>
  /\ sync' = NoteMutation
  /\ last' = Ret("testAsyncStorage", NoId, TRUE, FALSE, <<>>)
  /\ UNCHANGED <<net, tasks, queue, authToken, userData, currentState,
                 clock, nextNote, nextOp, created, deleted>>

\* createTestNote: testAsyncStorage(), then createNote(testNoteData)
createTestNote ==
  LET noteData  == [title |-> "Test Work Note"] @@ Likes
      newNote   == Note(<<"note", nextNote + 1>>, noteData.title,
                        clock, clock) @@ noteData
      offlineOp == OfflineOp(nextOp + 1, "CREATE", noteData, clock)
  IN  /\ Call
      /\ nextNote < MaxCreate
      /\ QueuesCreate => nextOp < MaxOps
      /\ nextNote' = nextNote + 1
      /\ cache' = addNoteToCache(<<TestNote(clock)>>, newNote)
      /\ IF QueuesCreate
         THEN /\ queue' = addOfflineOperation(queue, offlineOp)
              /\ nextOp' = nextOp + 1
         ELSE UNCHANGED <<queue, nextOp>>
      /\ created' = created \cup {newNote.id}
      /\ sync' = NoteMutation
      /\ last' = [Ret("createTestNote", newNote.id, TRUE, FALSE, <<newNote>>)
                    EXCEPT !.arg = noteData]
      /\ UNCHANGED <<net, tasks, authToken, userData, currentState, clock,
                     deleted>>

\* the like branch taken whether or not userId has liked the note
ToggleLikeAlwaysPush(note, userId) ==
  [note EXCEPT !.likes = @ + 1, !.likedBy = Append(@, userId)]

\* likeNote, lines 22-36: the like of userId toggled
ToggleLike(note, userId) ==
  IF \E i \in 1..Len(note.likedBy) : note.likedBy[i] = userId
  THEN [note EXCEPT !.likes = IF @ - 1 > 0 THEN @ - 1 ELSE 0,
                    !.likedBy = SelectSeq(@, LAMBDA id : id # userId)]
  ELSE [note EXCEPT !.likes = @ + 1, !.likedBy = Append(@, userId)]

\* socialService.likeNote: false when the note is not cached, has no
\* likedBy (the TypeError is caught) or the write rejects; otherwise the
\* whole collection is stored with the note's like toggled. last.arg is the
\* user, last.result the note as the call found it
likeNote ==
  \E noteId \in NoteIdSpace \cup {<<"test", 123>>}, userId \in Users,
     storageOk \in BOOLEAN :
    LET notes     == cache
        noteIndex == FindIndex(notes, noteId)
        likeable  == noteIndex # 0 /\ "likedBy" \in DOMAIN notes[noteIndex]
        note      == ToggleLike(notes[noteIndex], userId)
        stored    == likeable /\ storageOk
    IN  /\ Call
        /\ cache' = IF stored
                    THEN cacheNotes([notes EXCEPT ![noteIndex] = note])
                    ELSE cache
        /\ sync' = NoteMutation
        /\ last' = [Ret("likeNote", noteId, stored, FALSE,
                        IF likeable THEN <<notes[noteIndex]>> ELSE <<>>)
                      EXCEPT !.arg = userId]
        /\ UNCHANGED <<net, tasks, queue, authToken, userData, currentState,
                       clock, nextNote, nextOp, created, deleted>>

NextOwner ==
  \/ updateNetworkState
  \/ getNotes
  \/ createNote
  \/ clearAllData
  \/ testAsyncStorage
  \/ createTestNote
  \/ likeNote

SpecOwner == Init /\ [][NextOwner]_vars

(* ====================================================================== *)
(* removeOfflineOperation on any stored queue                             *)
(* ====================================================================== *)
MaxStored == 3      \* operations ever enqueued before the removal

OpTypes == {"CREATE", "UPDATE", "DELETE"}

\* the operations numbered by present, oldest first
StoredQueue(present, types) ==
  [i \in 1..Cardinality(present) |->
     LET n == CHOOSE x \in present :
                Cardinality({y \in present : y < x}) = i - 1
     IN  OfflineOp(n, types[n], [id |-> <<"post", 1>>], 0)]

\* a queue left by earlier enqueues and removals
InitQueue ==
  /\ \E present \in SUBSET (1..MaxStored), types \in [1..MaxStored -> OpTypes] :
       queue = StoredQueue(present, types)
  /\ nextOp = MaxStored
  /\ cache = <<>>
  /\ authToken = "token"
  /\ userData = "user"
  /\ currentState = [isConnected |-> TRUE, isInternetReachable |-> TRUE]
  /\ clock = 0
  /\ nextNote = 0
  /\ calls = 0
  /\ sync = NoSync
  /\ last = Ret("init", NoId, TRUE, FALSE, <<>>)
  /\ created = {}
  /\ deleted = {}
  /\ listeners = <<>>
  /\ netInit = "listening"
  /\ notice = NoNotice
  /\ pending = {}
  /\ tasks = NoTasks

\* storageService.removeOfflineOperation(operationId); the write resolves
\* or rejects; last.result keeps the queue the call found
removeOperation ==
  \E n \in 1..MaxStored, storageOk \in BOOLEAN :
    LET operationId == <<"offline", n>>
    IN  /\ queue' = IF storageOk
                    THEN removeOfflineOperation(queue, operationId)
                    ELSE queue
        /\ last' = Ret("removeOfflineOperation", operationId, storageOk,
                       FALSE, queue)
        /\ UNCHANGED <<net, tasks, cache, authToken, userData, currentState,
                       clock, nextNote, nextOp, calls, sync, created,
                       deleted>>

NextQueue == removeOperation

SpecQueue == InitQueue /\ [][NextQueue]_vars

(* ====================================================================== *)
(* The mutations when one storage read fails                              *)
(* ====================================================================== *)
\* the reads of a mutation: at most one of them fails in a call, and every
\* write succeeds
Reads == {"none", "getCachedNotes", "getOfflineOperations"}

\* storageService.getCachedNotes, lines 69-80: [] on a failed read
getCachedNotes(failing) ==
  IF failing = "getCachedNotes" THEN <<>> ELSE cache

\* storageService.getOfflineOperations, lines 106-114: [] on a failed read
getOfflineOperations(failing) ==
  IF failing = "getOfflineOperations" THEN <<>> ELSE queue

InitStore == Init /\ authToken = "token"

\* createNote, lines 156-200, with the reads of addNoteToCache and
\* addOfflineOperation
createNoteStore ==
  \E title \in Titles, failing \in Reads :
    LET noteData == [title |-> title] @@ Likes
        newNote  == Note(<<"note", nextNote + 1>>, title, clock, clock)
                      @@ noteData
        offlineOp == OfflineOp(nextOp + 1, "CREATE", noteData, clock)
    IN  /\ Call
        /\ nextNote < MaxCreate
        /\ QueuesCreate => nextOp < MaxOps
        /\ nextNote' = nextNote + 1
        /\ cache' = addNoteToCache(getCachedNotes(failing), newNote)
        /\ IF QueuesCreate
           THEN /\ queue' = addOfflineOperation(getOfflineOperations(failing),
                                                offlineOp)
                /\ nextOp' = nextOp + 1
           ELSE UNCHANGED <<queue, nextOp>>
        /\ created' = created \cup {newNote.id}
        /\ last' = [Ret("createNote", newNote.id, TRUE, FALSE, <<newNote>>)
                      EXCEPT !.arg = noteData]
        /\ UNCHANGED <<net, tasks, authToken, userData, currentState, clock,
                       sync, deleted>>

\* updateNote, lines 240-264: the offline branch with its two reads
updateNoteStore ==
  \E id \in NoteIdSpace, updates \in Partials, failing \in Reads :
    LET offlineOp   == OfflineOp(nextOp + 1, "UPDATE",
                                 [id |-> id] @@ updates, clock)
        cachedNotes == getCachedNotes(failing)
        noteIndex   == FindIndex(cachedNotes, id)
        merged      == MergeUpdate(cachedNotes[noteIndex], updates, clock)
    IN  /\ Call
        /\ ~isOnline
        /\ nextOp < MaxOps
        /\ queue' = addOfflineOperation(getOfflineOperations(failing),
                                        offlineOp)
        /\ nextOp' = nextOp + 1
        /\ IF noteIndex # 0
           THEN /\ cache' = cacheNotes([cachedNotes
                                          EXCEPT ![noteIndex] = merged])
                /\ last' = [Ret("updateNote", id, TRUE, FALSE, <<merged>>)
                              EXCEPT !.arg = updates]
           ELSE /\ cache' = cache
                /\ last' = [Ret("updateNote", id, FALSE, FALSE, <<>>)
                              EXCEPT !.arg = updates]
        /\ UNCHANGED <<net, tasks, authToken, userData, currentState, clock,
                       nextNote, sync, created, deleted>>

\* deleteNote, lines 301-325, with the reads of addOfflineOperation and
\* removeNoteFromCache; online the DELETE request succeeds or fails
deleteNoteStore ==
  \E id \in NoteIdSpace, failing \in Reads, responseOk \in BOOLEAN :
    LET offlineOp == OfflineOp(nextOp + 1, "DELETE", [id |-> id], clock)
    IN  /\ Call
        /\ IF isOnline
           THEN /\ IF responseOk
                   THEN /\ cache' = removeNoteFromCache(
                                      getCachedNotes(failing), id)
                        /\ last' = Ret("deleteNote", id, TRUE, TRUE, <<>>)
                   ELSE /\ cache' = cache
                        /\ last' = Ret("deleteNote", id, FALSE, TRUE, <<>>)
                /\ UNCHANGED <<queue, nextOp>>
           ELSE /\ nextOp < MaxOps
                /\ queue' = addOfflineOperation(
                              getOfflineOperations(failing), offlineOp)
                /\ nextOp' = nextOp + 1
                /\ cache' = removeNoteFromCache(getCachedNotes(failing), id)
                /\ last' = Ret("deleteNote", id, TRUE, FALSE, <<>>)
        /\ created' = created \ {id}
        /\ deleted' = IF last'.ok THEN deleted \cup {id} ELSE deleted
        /\ UNCHANGED <<net, tasks, authToken, userData, currentState, clock,
                       nextNote, sync>>

NextStore ==
  \/ updateNetworkState
  \/ getNotes
  \/ createNoteStore
  \/ updateNoteStore
  \/ deleteNoteStore

SpecStore == InitStore /\ [][NextStore]_vars

(* ====================================================================== *)
(* An enqueue and a drain, await by await                                 *)
(* ====================================================================== *)
\* enqueue: one addOfflineOperation(operation) issued by a mutation;
\* operations is the array its getOfflineOperations returned.
\* drain: one syncOfflineOperations(); offlineOps is the part of its
\* snapshot still to visit, operations the array the removeOfflineOperation
\* in progress read, visited and removed the ids it has visited and removed
NoQueueTasks ==
  [enqueue |-> [pc |-> "idle", operation |-> <<>>, operations |-> <<>>],
   drain   |-> [pc |-> "idle", offlineOps |-> <<>>, operations |-> <<>>,
                visited |-> {}, removed |-> {}]]

InitDrain ==
  /\ \E present \in SUBSET (1..MaxStored), types \in [1..MaxStored -> OpTypes] :
       queue = StoredQueue(present, types)
  /\ nextOp = MaxStored
  /\ cache = <<>>
  /\ authToken = "token"
  /\ userData = "user"
  /\ currentState = [isConnected |-> TRUE, isInternetReachable |-> TRUE]
  /\ clock = 0
  /\ nextNote = 0
  /\ calls = 0
  /\ sync = NoSync
  /\ last = Ret("init", NoId, TRUE, FALSE, <<>>)
  /\ created = {}
  /\ deleted = {}
  /\ listeners = <<>>
  /\ netInit = "listening"
  /\ notice = NoNotice
  /\ pending = {}
  /\ tasks = NoQueueTasks

DrainFrame ==
  UNCHANGED <<net, cache, authToken, userData, currentState, clock, nextNote,
              sync, created, deleted>>

\* addOfflineOperation, line 94: await this.getOfflineOperations()
enqueueRead ==
  \E type \in OpTypes :
    LET operation == OfflineOp(nextOp + 1, type, [id |-> <<"post", 1>>], clock)
    IN  /\ tasks.enqueue.pc = "idle"
        /\ calls' = calls + 1
        /\ nextOp' = nextOp + 1
        /\ tasks' = [tasks EXCEPT !.enqueue = [pc |-> "write",
                                               operation |-> operation,
                                               operations |-> queue]]
        /\ last' = Ret("addOfflineOperation:read", operation.id, TRUE, FALSE,
                       <<>>)
        /\ UNCHANGED queue
        /\ DrainFrame

\* addOfflineOperation, lines 95-99: push, await AsyncStorage.setItem
enqueueWrite ==
  LET t == tasks.enqueue
  IN  /\ t.pc = "write"
      /\ queue' = addOfflineOperation(t.operations, t.operation)
      /\ tasks' = [tasks EXCEPT !.enqueue.pc = "done"]
      /\ last' = Ret("addOfflineOperation", t.operation.id, TRUE, FALSE, <<>>)
      /\ UNCHANGED <<calls, nextOp>>
      /\ DrainFrame

\* syncOfflineOperations, lines 350-363: up to the snapshot of the queue
drainStart ==
  /\ tasks.drain.pc = "idle"
  /\ calls' = calls + 1
  /\ IF isOffline \/ Len(queue) = 0
     THEN /\ tasks' = [tasks EXCEPT !.drain.pc = "done"]
          /\ last' = Ret(IF isOffline THEN "syncSkipped" ELSE "sync",
                         NoId, TRUE, FALSE, <<>>)
     ELSE /\ tasks' = [tasks EXCEPT !.drain.pc = "loop",
                                    !.drain.offlineOps = queue]
          /\ last' = Ret("syncStart", NoId, TRUE, FALSE, <<>>)
  /\ UNCHANGED <<queue, nextOp>>
  /\ DrainFrame

\* removeOfflineOperation, line 127, called from the loop (part_009:386):
\* await this.getOfflineOperations()
drainRemoveRead ==
  LET t         == tasks.drain
      operation == Head(t.offlineOps)
  IN  /\ t.pc = "loop"
      /\ tasks' = [tasks EXCEPT !.drain.pc = "write",
                                !.drain.operations = queue,
                                !.drain.visited = @ \cup {operation.id}]
      /\ last' = Ret("removeOfflineOperation:read", operation.id, TRUE, FALSE,
                     <<>>)
      /\ UNCHANGED <<queue, calls, nextOp>>
      /\ DrainFrame

\* removeOfflineOperation, lines 128-132: filter, await AsyncStorage.setItem;
\* then the next iteration of the loop, or the return
drainRemoveWrite ==
  LET t         == tasks.drain
      operation == Head(t.offlineOps)
      rest      == Tail(t.offlineOps)
  IN  /\ t.pc = "write"
      /\ queue' = removeOfflineOperation(t.operations, operation.id)
      /\ tasks' = [tasks EXCEPT
                     !.drain.pc = IF rest = <<>> THEN "done" ELSE "loop",
                     !.drain.offlineOps = rest,
                     !.drain.removed = @ \cup {operation.id}]
      /\ last' = IF rest = <<>>
                 THEN Ret("sync", NoId, TRUE, FALSE, <<>>)
                 ELSE Ret("syncStep", operation.id, TRUE, FALSE, <<>>)
      /\ UNCHANGED <<calls, nextOp>>
      /\ DrainFrame

NextDrain ==
  \/ enqueueRead
  \/ enqueueWrite
  \/ drainStart
  \/ drainRemoveRead
  \/ drainRemoveWrite

SpecDrain == InitDrain /\ [][NextDrain]_vars

(* ====================================================================== *)
(* waitForConnection with its timer                                       *)
(* ====================================================================== *)
\* the promise of one waitForConnection(timeoutMs) call: value is "idle"
\* before the call, "pending" until the first resolve, then "true" or
\* "false"; timer: the setTimeout is armed; resolves: the calls of resolve
NoWait == [value |-> "idle", timer |-> FALSE, resolves |-> 0]

\* resolve(v) of a Promise: only the first call settles it
Resolve(wait, v) ==
  [wait EXCEPT !.value = IF @ = "pending" THEN v ELSE @,
               !.resolves = @ + 1]

InitWait ==
  /\ cache = <<>>
  /\ queue = <<>>
  /\ nextOp = 0
  /\ authToken = "token"
  /\ userData = "user"
  /\ currentState = [isConnected |-> TRUE, isInternetReachable |-> TRUE]
  /\ clock = 0
  /\ nextNote = 0
  /\ calls = 0
  /\ sync = NoSync
  /\ last = Ret("init", NoId, TRUE, FALSE, <<>>)
  /\ created = {}
  /\ deleted = {}
  /\ listeners = <<>>
  /\ netInit = "listening"
  /\ notice = NoNotice
  /\ pending = {}
  /\ tasks = [wait |-> NoWait]

WaitFrame(op, outcome) ==
  /\ last' = [Ret(op, NoId, TRUE, FALSE, <<>>) EXCEPT !.arg = outcome]
  /\ UNCHANGED <<cache, queue, authToken, userData, clock, nextNote, nextOp,
                 calls, sync, created, deleted, netInit>>

\* a list screen mounts and subscribes
mountScreen ==
  \E listener \in ListScreens :
    /\ \A i \in 1..Len(listeners) : listeners[i] \notin ListScreens
    /\ listeners' = Append(listeners, listener)
    /\ UNCHANGED <<currentState, notice, pending, tasks>>
    /\ WaitFrame("subscribe", listener)

\* waitForConnection, lines 75-94: resolve(true) at once when online, else
\* arm the timer and subscribe
waitForConnection ==
  /\ tasks.wait.value = "idle"
  /\ IF isOnline
     THEN /\ tasks' = [tasks EXCEPT
                         !.wait = Resolve([@ EXCEPT !.value = "pending"],
                                          "true")]
          /\ UNCHANGED listeners
     ELSE /\ tasks' = [tasks EXCEPT !.wait.value = "pending",
                                    !.wait.timer = TRUE]
          /\ listeners' = Append(listeners, "waitForConnection")
  /\ UNCHANGED <<currentState, notice, pending>>
  /\ WaitFrame("waitForConnection", IF isOnline THEN "online" ELSE "offline")

\* the NetInfo callback: updateNetworkState, and for a change the listeners;
\* the listener of waitForConnection, invoked with an online state, does
\* clearTimeout, unsubscribe() and resolve(true)
networkChange ==
  \E c \in NetInfoValues, r \in NetInfoValues :
    LET newState == [isConnected |-> Coalesce(c),
                     isInternetReachable |-> Coalesce(r)]
        changed  == currentState.isConnected # newState.isConnected
                    \/ currentState.isInternetReachable
                         # newState.isInternetReachable
        done     == notifyListeners(listeners, newState)
        told     == /\ changed
                    /\ Online(newState)
                    /\ \E i \in 1..Len(done.invoked) :
                         done.invoked[i] = "waitForConnection"
    IN  /\ Deliver(c, r)
        /\ tasks' = IF told
                    THEN [tasks EXCEPT
                            !.wait = Resolve([@ EXCEPT !.timer = FALSE],
                                             "true")]
                    ELSE tasks
        /\ WaitFrame("netInfoEvent", Delivered(c, r))

\* the callback of setTimeout, lines 82-84: resolve(false) and nothing else
waitTimeout ==
  /\ tasks.wait.timer
  /\ tasks' = [tasks EXCEPT !.wait = Resolve([@ EXCEPT !.timer = FALSE],
                                             "false")]
  /\ UNCHANGED <<currentState, listeners, notice, pending>>
  /\ WaitFrame("timeout", "fired")

NextWait ==
  \/ mountScreen
  \/ waitForConnection
  \/ networkChange
  \/ waitTimeout

SpecWait == InitWait /\ [][NextWait]_vars

(* ====================================================================== *)
(* Properties                                                             *)
(* ====================================================================== *)
\* a step that is a call of a service method
Called(op) == calls' = calls + 1 /\ last'.op = op

NoteWithId(notes, id) == notes[FindIndex(notes, id)]

Range(s) == {s[i] : i \in 1..Len(s)}

(* ---------------------------------------------------------------------- *)
(* C1: cache-first read. Whenever the cached collection is non-empty,     *)
(* getNotes() returns exactly the cached collection, in every             *)
(* connectivity state, sends no remote request and leaves the cache       *)
(* unchanged.                                                             *)
(* ---------------------------------------------------------------------- *)
C1_CacheFirstRead ==
  [][(Called("getNotes") /\ cache # <<>>)
       => /\ last'.result = cache
          /\ ~last'.remote
          /\ cache' = cache]_vars

\* an online, authenticated getNotes() that served a non-empty cache
C1_Witness ==
  /\ last.op = "getNotes"
  /\ isOnline
  /\ authToken # "null"
  /\ ~last.remote
  /\ last.result # <<>>
  /\ last.result = cache

(* ---------------------------------------------------------------------- *)
(* C2: a note returned by createNote stays in every later getNotes()      *)
(* result until deleteNote is called for its id or clearAllData is        *)
(* called.                                                                *)
(* ---------------------------------------------------------------------- *)
C2_CreatedNoteStable ==
  last.op = "getNotes" => created \subseteq Ids(last.result)

(* ---------------------------------------------------------------------- *)
(* C3: after deleteNote(id), no later getNotes() result contains a note   *)
(* with that id, whatever the connectivity.                               *)
(* ---------------------------------------------------------------------- *)
C3_DeletedStaysDeleted ==
  last.op = "getNotes" => deleted \cap Ids(last.result) = {}

(* ---------------------------------------------------------------------- *)
(* C4: every successful createNote, online or offline, appends exactly    *)
(* one CREATE operation carrying the submitted fields to the offline      *)
(* queue.                                                                 *)
(* ---------------------------------------------------------------------- *)
C4_CreateAlwaysQueued ==
  [][(Called("createNote") /\ last'.ok)
       => /\ Len(queue') = Len(queue) + 1
          /\ SubSeq(queue', 1, Len(queue)) = queue
          /\ queue'[Len(queue')].type = "CREATE"
          /\ queue'[Len(queue')].data = last'.arg]_vars

(* ---------------------------------------------------------------------- *)
(* C5: an online getNotesPaginated merges the fetched page additively:    *)
(* every cached note whose id is not in the fetched page is still cached  *)
(* after the call.                                                        *)
(* ---------------------------------------------------------------------- *)
C5_PaginatedMergeAdditive ==
  [][(Called("getNotesPaginated") /\ isOnline)
       => \A i \in 1..Len(cache) :
            cache[i].id \notin Ids(last'.result)
              => cache[i] \in Range(cache')]_vars

(* ---------------------------------------------------------------------- *)
(* C6: an online updateNote of a cached note whose remote update fails    *)
(* (or has no auth token) falls back to the offline path: the partial     *)
(* fields are merged into the cached note and an UPDATE operation is      *)
(* enqueued.                                                              *)
(* ---------------------------------------------------------------------- *)
C6_UpdateFallsBackToLocal ==
  [][(Called("updateNote") /\ isOnline /\ ~last'.ok
        /\ last'.id \in Ids(cache))
       => /\ Len(queue') = Len(queue) + 1
          /\ queue'[Len(queue')].type = "UPDATE"
          /\ queue'[Len(queue')].data = [id |-> last'.id] @@ last'.arg
          /\ last'.id \in Ids(cache')
          /\ Spread(NoteWithId(cache', last'.id), [updatedAt |-> 0])
               = Spread(Spread(NoteWithId(cache, last'.id), last'.arg),
                        [updatedAt |-> 0])]_vars

(* ---------------------------------------------------------------------- *)
(* C7: an online deleteNote(id) removes the note from the cache whatever  *)
(* the outcome of the remote deletion.                                    *)
(* ---------------------------------------------------------------------- *)
C7_OnlineDeleteRemovesLocally ==
  [][(Called("deleteNote") /\ isOnline)
       => last'.id \notin Ids(cache')]_vars

(* ---------------------------------------------------------------------- *)
(* C8: timestamp monotonicity. A successful updateNote makes the cached   *)
(* note's updatedAt strictly greater than before, and updatedAt >=        *)
(* createdAt holds for every cached note in every reachable state.        *)
(* ---------------------------------------------------------------------- *)
C8_TimestampMonotonicity ==
  /\ [](\A i \in 1..Len(cache) : cache[i].updatedAt >= cache[i].createdAt)
  /\ [][(Called("updateNote") /\ last'.ok /\ last'.id \in Ids(cache))
          => NoteWithId(cache', last'.id).updatedAt
               > NoteWithId(cache, last'.id).updatedAt]_vars

(* ---------------------------------------------------------------------- *)
(* C9: FIFO drain. The stored queue lists the operations in the order     *)
(* they were issued, a drain visits the oldest operation of its snapshot  *)
(* first, and no operation is removed from the queue while an operation   *)
(* enqueued before it is still in the queue.                              *)
(* ---------------------------------------------------------------------- *)
OpNumber(operation) == operation.id[2]

C9_FifoDrain ==
  /\ [](\A i, j \in 1..Len(queue) :
          i < j => OpNumber(queue[i]) < OpNumber(queue[j]))
  /\ [][sync'.visited = sync.visited + 1
          => /\ sync'.ops = Tail(sync.ops)
             /\ \A i \in 1..Len(sync'.ops) :
                  OpNumber(Head(sync.ops)) < OpNumber(sync'.ops[i])]_vars
  /\ [][\A i, j \in 1..Len(queue) :
          (i < j /\ queue[j] \notin Range(queue'))
            => queue[i] \notin Range(queue')]_vars

(* ---------------------------------------------------------------------- *)
(* C10: a syncOfflineOperations() that ran online to completion, with no  *)
(* mutation issued meanwhile and no storage failure, returns with an      *)
(* empty offline queue.                                                   *)
(* ---------------------------------------------------------------------- *)
C10_SyncEmptiesQueue ==
  (last.op = "sync" /\ ~sync.mutated /\ ~sync.failed) => queue = <<>>

\* such a drain that visited two queued operations
C10_Witness ==
  /\ last.op = "sync"
  /\ ~sync.mutated
  /\ ~sync.failed
  /\ sync.visited >= 2
  /\ queue = <<>>

(* ---------------------------------------------------------------------- *)
(* C12: syncOfflineOperations() called while offline is a no-op: it       *)
(* returns at once, the offline queue and the cached notes are what they  *)
(* were before the call, no drain is begun and no remote request is made. *)
(* ---------------------------------------------------------------------- *)
SyncCalled ==
  calls' = calls + 1 /\ last'.op \in {"syncSkipped", "syncStart", "sync"}

C12_OfflineSyncIsNoOp ==
  [][(SyncCalled /\ ~isOnline)
       => /\ last'.op = "syncSkipped"
          /\ queue' = queue
          /\ cache' = cache
          /\ sync'.pc = "idle"
          /\ ~last'.remote]_vars

\* an offline call that found queued operations and cached notes
C12_Witness ==
  /\ last.op = "syncSkipped"
  /\ ~isOnline
  /\ queue # <<>>
  /\ cache # <<>>

(* ---------------------------------------------------------------------- *)
(* C13: logout clears everything. After clearAllData() the auth token and *)
(* the user data are null and the cached notes and the offline queue are  *)
(* empty, whatever was stored before.                                     *)
(* ---------------------------------------------------------------------- *)
C13_LogoutClearsEverything ==
  last.op = "clearAllData"
    => /\ authToken = "null"
       /\ userData = "null"
       /\ cache = <<>>
       /\ queue = <<>>

\* a clearAllData() that found a session, cached notes and queued operations
C13_Witness ==
  /\ last.op = "clearAllData"
  /\ last.arg.token = "token"
  /\ last.arg.notes > 0
  /\ last.arg.ops > 0
  /\ cache = <<>>
  /\ queue = <<>>

(* ---------------------------------------------------------------------- *)
(* C14: offline pagination. For a cache of n notes, getNotesPaginated(    *)
(* page, pageSize) called offline returns exactly the cached notes at     *)
(* indices (page-1)*pageSize up to but excluding min(page*pageSize, n),   *)
(* with hasMore = (page*pageSize < n) and total = n, and leaves the cache *)
(* unchanged.                                                             *)
(* ---------------------------------------------------------------------- *)
C14_OfflinePagination ==
  [][(Called("getNotesPaginated") /\ ~isOnline)
       => LET page     == last'.arg[1]
              pageSize == last'.arg[2]
              n        == Len(cache)
              first    == (page - 1) * pageSize
              end      == Min(page * pageSize, n)
          IN  /\ Len(last'.result) = IF end > first THEN end - first ELSE 0
              /\ \A i \in 1..Len(last'.result) :
                    last'.result[i] = cache[first + i]
              /\ last'.hasMore = (page * pageSize < n)
              /\ last'.total = n
              /\ cache' = cache]_vars

\* the last, shorter page of a cache of three notes read in pages of two
C14_Witness ==
  /\ last.op = "getNotesPaginated"
  /\ ~isOnline
  /\ last.arg = <<2, 2>>
  /\ Len(cache) = 3
  /\ last.result = <<cache[3]>>
  /\ ~last.hasMore
  /\ last.total = 3

(* ---------------------------------------------------------------------- *)
(* C15: in every connectivity state, getNotesPaginated(page, pageSize)    *)
(* for a page beyond the available data (the remote source when online,   *)
(* the cache when offline) returns no notes together with hasMore = false.*)
(* ---------------------------------------------------------------------- *)
Available == IF isOnline THEN NumPosts ELSE Len(cache)

Mounted == \E i \in 1..Len(notice.before) : notice.before[i] \in ListScreens

\* the operations queued before the latest change to online and still
\* queued, while the state stays online
Owed ==
  IF isOnline /\ Mounted THEN notice.queued \cap Ids(queue) ELSE {}

C11_AutoSyncOnReconnect == (Owed # {}) ~> (Owed = {})

(* ---------------------------------------------------------------------- *)
(* C16: every listener subscribed when the network state changes is       *)
(* invoked exactly once for that change, also when another listener       *)
(* unsubscribes itself inside its callback during the same notification.  *)
(* ---------------------------------------------------------------------- *)
Invocations(listener, invoked) ==
  Cardinality({j \in 1..Len(invoked) : invoked[j] = listener})

C16_EachListenerNotifiedOnce ==
  [][currentState' # currentState
       => \A i \in 1..Len(listeners) :
            Invocations(listeners[i], notice'.invoked) = 1]_vars

(* ---------------------------------------------------------------------- *)
(* C17: the reachability monitor fails safe to offline. After a probe     *)
(* (the one made at construction included) that failed, or that returned  *)
(* a state whose isConnected or isInternetReachable is missing or null,   *)
(* isOnline() is false.                                                   *)
(* ---------------------------------------------------------------------- *)
Probed == last.op \in {"initializeNetworkListener", "refreshNetworkState"}

C17_FailSafeOffline ==
  (Probed /\ last.arg \in {"rejected", "indeterminate"}) => ~isOnline

\* the part of C17 about missing or null fields
C17_NullFieldsAreOffline ==
  (Probed /\ last.arg = "indeterminate") => ~isOnline

(* ---------------------------------------------------------------------- *)
(* C18: a local cache write wins over a concurrent stale remote read. If  *)
(* createNote writes note N to the cache while a getNotes() that found    *)
(* the cache empty is still awaiting its remote fetch, then after both    *)
(* calls have completed the cache still contains N as written.            *)
(* ---------------------------------------------------------------------- *)
C18_LocalWriteWins ==
  \A t \in Creators :
    (/\ tasks[t].pc = "done"
     /\ tasks[t].stale
     /\ tasks["getNotes"].pc = "done"
     /\ \A u \in Creators \ {t} : tasks[u].pc = "idle")
      => tasks[t].note[1] \in Range(cache)

(* ---------------------------------------------------------------------- *)
(* C19: concurrent createNote calls for different notes are safe. For any *)
(* interleaving of two createNote calls at their await points, after both *)
(* have returned the cache contains both created notes.                   *)
(* ---------------------------------------------------------------------- *)
C19_ConcurrentCreatesSafe ==
  (/\ \A t \in Creators : tasks[t].pc = "done"
   /\ tasks["getNotes"].pc = "idle")
    => \A t \in Creators : tasks[t].note[1] \in Range(cache)

(* ---------------------------------------------------------------------- *)
(* C20: the cached note collection is changed only by the operations of   *)
(* the notes service (getNotes, getNotesPaginated, createNote,            *)
(* updateNote, deleteNote) and by clearAllData; no other service, debug   *)
(* helper or UI action changes the value under the notes-cache key.       *)
(* ---------------------------------------------------------------------- *)
CacheWriters ==
  {"getNotes", "getNotesPaginated", "createNote", "updateNote",
   "deleteNote", "clearAllData"}

C20_OnlyEngineWritesCache ==
  [][cache' # cache => last'.op \in CacheWriters]_vars

\* the part of C20 about socialService: a like never changes the cache
C20_LikeLeavesCache ==
  [][last'.op = "likeNote" => cache' = cache]_vars

(* ---------------------------------------------------------------------- *)
(* C21: read paths never fail on network errors. When the remote fetch    *)
(* fails, answers with a non-success status, or no auth token is stored,  *)
(* getNotes() and getNotesPaginated() do not reject: they return what the *)
(* current cache gives (all cached notes, or the requested slice) and     *)
(* leave the cache unchanged.                                             *)
(* ---------------------------------------------------------------------- *)
C21_ReadsSurviveNetworkErrors ==
  [][((Called("getNotes") \/ Called("getNotesPaginated"))
        /\ last'.fetch \in {"failed", "noToken"})
       => /\ last'.ok
          /\ cache' = cache
          /\ last'.op = "getNotes" => last'.result = cache
          /\ last'.op = "getNotesPaginated" =>
               LET first == (last'.arg[1] - 1) * last'.arg[2]
                   end   == Min(last'.arg[1] * last'.arg[2], Len(cache))
               IN  /\ Len(last'.result)
                        = IF end > first THEN end - first ELSE 0
                   /\ \A i \in 1..Len(last'.result) :
                        last'.result[i] = cache[first + i]]_vars

\* an online getNotesPaginated whose request failed and that served a
\* non-empty slice of the cache
C21_Witness ==
  /\ last.op = "getNotesPaginated"
  /\ last.fetch = "failed"
  /\ last.ok
  /\ last.result # <<>>
  /\ last.result = Slice(cache, 0, last.arg[2])

(* ---------------------------------------------------------------------- *)
(* C22: removeOfflineOperation(id) removes exactly the queued operations  *)
(* whose id equals the argument and keeps every other operation in its    *)
(* previous relative order; when no queued operation has that id the      *)
(* queue is unchanged.                                                    *)
(* ---------------------------------------------------------------------- *)
\* the positions of the operations of ops that do not have the id
Kept(ops, id) == {i \in 1..Len(ops) : ops[i].id # id}

\* the j-th of those positions
KeptAt(ops, id, j) ==
  CHOOSE i \in Kept(ops, id) :
    Cardinality({k \in Kept(ops, id) : k < i}) = j - 1

C22_RemoveByIdKeepsOrder ==
  [][(last'.op = "removeOfflineOperation" /\ last'.ok)
       => /\ Len(queue') = Cardinality(Kept(queue, last'.id))
          /\ \A j \in 1..Len(queue') :
               queue'[j] = queue[KeptAt(queue, last'.id, j)]
          /\ (last'.id \notin Ids(queue)) => queue' = queue]_vars

\* the middle one of three queued operations has just been removed
C22_Witness ==
  /\ last.op = "removeOfflineOperation"
  /\ last.ok
  /\ last.id = <<"offline", 2>>
  /\ Len(last.result) = 3
  /\ Len(queue) = 2
  /\ queue[1].id = <<"offline", 1>>
  /\ queue[2].id = <<"offline", 3>>

(* ---------------------------------------------------------------------- *)
(* C23: likeNote keeps the like invariant. If the cached note has no      *)
(* duplicate ids in likedBy and likes = likedBy.length before the call,   *)
(* then after a call that returned true the same holds, the user's        *)
(* membership in likedBy is toggled, every other note is unchanged, and   *)
(* the second of two successive calls by the same user restores the       *)
(* original likedBy set and likes count.                                  *)
(* ---------------------------------------------------------------------- *)
LikeInvariant(note) ==
  /\ \A i, j \in 1..Len(note.likedBy) :
       note.likedBy[i] = note.likedBy[j] => i = j
  /\ note.likes = Len(note.likedBy)

C23_LikeInvariantKept ==
  [][(Called("likeNote") /\ last'.ok)
       => LET id     == last'.id
              user   == last'.arg
              before == NoteWithId(cache, id)
              after  == NoteWithId(cache', id)
          IN  LikeInvariant(before)
                => /\ id \in Ids(cache')
                   /\ LikeInvariant(after)
                   /\ (user \in Range(after.likedBy))
                        = (user \notin Range(before.likedBy))
                   /\ Len(cache') = Len(cache)
                   /\ \A i \in 1..Len(cache) :
                        cache[i].id # id => cache'[i] = cache[i]
                   /\ (last.op = "likeNote" /\ last.ok /\ last.id = id
                         /\ last.arg = user)
                        => /\ Range(after.likedBy)
                                = Range(last.result[1].likedBy)
                           /\ after.likes = last.result[1].likes]_vars

\* user 1 has just taken back the like they had given to a created note
C23_Witness ==
  /\ last.op = "likeNote"
  /\ last.ok
  /\ last.arg = "1"
  /\ last.id = <<"note", 1>>
  /\ last.result[1].likedBy = <<"1">>
  /\ last.result[1].likes = 1
  /\ last.id \in Ids(cache)
  /\ NoteWithId(cache, last.id).likedBy = <<>>
  /\ NoteWithId(cache, last.id).likes = 0

(* ---------------------------------------------------------------------- *)
(* C24: a successful offline updateNote(id, updates) on a cached note     *)
(* replaces that note, at the same position, by the old note overlaid     *)
(* with updates and an updatedAt taken at the call, leaves every other    *)
(* cached note and the order unchanged, and appends exactly one UPDATE    *)
(* operation whose payload is {id} plus updates at the tail of the queue. *)
(* ---------------------------------------------------------------------- *)
C24_OfflineUpdateFrame ==
  [][(Called("updateNote") /\ ~isOnline /\ last'.ok)
       => LET id == last'.id
              k  == FindIndex(cache, id)
          IN  /\ k # 0
              /\ Len(cache') = Len(cache)
              /\ \A i \in 1..Len(cache) : i # k => cache'[i] = cache[i]
              /\ cache'[k] = [Spread(cache[k], last'.arg)
                                EXCEPT !.updatedAt = clock]
              /\ Len(queue') = Len(queue) + 1
              /\ SubSeq(queue', 1, Len(queue)) = queue
              /\ queue'[Len(queue')].type = "UPDATE"
              /\ queue'[Len(queue')].data = [id |-> id] @@ last'.arg]_vars

\* the second of two cached notes has just been retitled offline
C24_Witness ==
  /\ last.op = "updateNote"
  /\ last.ok
  /\ ~last.remote
  /\ ~isOnline
  /\ last.arg = [title |-> "b"]
  /\ Len(cache) = 2
  /\ cache[2].id = last.id
  /\ cache[2].title = "b"
  /\ cache[1].title = "p"
  /\ queue # <<>>
  /\ queue[Len(queue)].type = "UPDATE"

(* ---------------------------------------------------------------------- *)
(* C25: with an empty cache, getNotes() called online with a successful   *)
(* remote fetch returns the fetched collection and leaves the cache equal *)
(* to it; called offline it returns an empty sequence, makes no remote    *)
(* request and leaves the cache empty.                                    *)
(* ---------------------------------------------------------------------- *)
C25_EmptyCacheRead ==
  [][(Called("getNotes") /\ cache = <<>>)
       => /\ (isOnline /\ last'.fetch = "ok")
               => /\ last'.remote
                  /\ last'.result = fetchNotesFromAPI(clock)
                  /\ cache' = last'.result
          /\ ~isOnline
               => /\ last'.result = <<>>
                  /\ ~last'.remote
                  /\ last'.fetch = "none"
                  /\ cache' = <<>>]_vars

\* an online getNotes() that has just filled the empty cache from the API
C25_Witness ==
  /\ last.op = "getNotes"
  /\ last.fetch = "ok"
  /\ last.remote
  /\ isOnline
  /\ calls = 1
  /\ Len(last.result) = NumPosts
  /\ cache = last.result

\* an offline getNotes() that has just returned the empty cache
C25_WitnessOffline ==
  /\ last.op = "getNotes"
  /\ ~isOnline
  /\ calls = 1
  /\ last.result = <<>>
  /\ cache = <<>>

(* ---------------------------------------------------------------------- *)
(* C26: during an online drain an operation is removed from the queue     *)
(* only after it has been visited; if removing one operation fails with a *)
(* storage error, that operation stays in the queue, the drain continues  *)
(* with the remaining operations, and syncOfflineOperations() never       *)
(* rejects.                                                               *)
(* ---------------------------------------------------------------------- *)
DrainStep == sync.pc = "sync" /\ sync'.visited = sync.visited + 1

C27_MissingNoteUpdateLeavesNoTrace ==
  [][(Called("updateNote") /\ ~isOnline /\ FindIndex(cache, last'.id) = 0)
       => /\ ~last'.ok
          /\ cache' = cache
          /\ queue' = queue]_vars

\* the rejection alone: an offline update of a missing note fails and
\* leaves the cache as it was
C27_MissingNoteUpdateRejects ==
  [][(Called("updateNote") /\ ~isOnline /\ FindIndex(cache, last'.id) = 0)
       => /\ ~last'.ok
          /\ cache' = cache]_vars

(* ---------------------------------------------------------------------- *)
(* C28: a transient storage read failure never destroys stored data: if   *)
(* the read inside createNote, deleteNote, offline updateNote or          *)
(* addOfflineOperation fails once while the following write succeeds,     *)
(* every note and every queued operation that was stored before the call  *)
(* (other than the note being deleted) is still stored after the call.    *)
(* ---------------------------------------------------------------------- *)
Mutated ==
  calls' = calls + 1 /\ last'.op \in {"createNote", "updateNote", "deleteNote"}

C28_ReadFailureKeepsData ==
  [][Mutated
       => /\ \A i \in 1..Len(cache) :
               \/ last'.op = "deleteNote" /\ cache[i].id = last'.id
               \/ cache[i].id \in Ids(cache')
          /\ Ids(queue) \subseteq Ids(queue')]_vars

(* ---------------------------------------------------------------------- *)
(* C29: the offline queue loses and resurrects nothing under concurrency: *)
(* when a mutation enqueues an operation while syncOfflineOperations() is *)
(* draining, after both complete the newly enqueued operation is either   *)
(* still in the queue or was visited by the drain, and no operation       *)
(* already removed by the drain is back in the queue.                     *)
(* ---------------------------------------------------------------------- *)
BothComplete == tasks.enqueue.pc = "done" /\ tasks.drain.pc = "done"

EnqueuedKept ==
  \/ tasks.enqueue.operation.id \in Ids(queue)
  \/ tasks.enqueue.operation.id \in tasks.drain.visited

NoneResurrected == tasks.drain.removed \cap Ids(queue) = {}

C29_QueueSafeUnderConcurrency ==
  BothComplete => EnqueuedKept /\ NoneResurrected

\* the two halves, each on its own
C29_EnqueuedOperationKept == BothComplete => EnqueuedKept

C29_NoOperationResurrected == BothComplete => NoneResurrected

(* ---------------------------------------------------------------------- *)
(* C30: waitForConnection(timeout) resolves exactly once: true at once if *)
(* online at the call, true at the first change to online before the      *)
(* timeout, false when the timeout fires first; and once it has resolved, *)
(* by either route, the listener it registered is no longer in the        *)
(* listener list of the network service.                                  *)
(* ---------------------------------------------------------------------- *)
Settled(wait) == wait.value \in {"true", "false"}

Waiting == tasks.wait.value = "pending"

BecomesOnline == ~isOnline /\ Online(currentState')

\* the value the promise takes, and keeps
ResolvesOnce ==
  /\ (last'.op = "waitForConnection" /\ isOnline)
       => tasks'.wait.value = "true"
  /\ (last'.op = "waitForConnection" /\ ~isOnline)
       => tasks'.wait.value = "pending"
  /\ (Waiting /\ BecomesOnline) => tasks'.wait.value = "true"
  /\ (Waiting /\ last'.op = "timeout") => tasks'.wait.value = "false"
  /\ (Waiting /\ ~BecomesOnline /\ last'.op # "timeout")
       => tasks'.wait.value = "pending"
  /\ Settled(tasks.wait) => tasks'.wait.value = tasks.wait.value

ListenerGone ==
  Settled(tasks.wait)
    => \A i \in 1..Len(listeners) : listeners[i] # "waitForConnection"

C30_WaitResolvesOnceAndUnsubscribes ==
  [][ResolvesOnce /\ ListenerGone']_vars

\* the value alone
C30_WaitResolvesOnce == [][ResolvesOnce]_vars

\* the listener after a resolve(true)
C30_ListenerGoneWhenTrue ==
  tasks.wait.value = "true"
    => \A i \in 1..Len(listeners) : listeners[i] # "waitForConnection"

====
